---- MODULE Spec2Model ----
(***************************************************************************)
(* ChefCam: the /api/analyze route (src/app/api/analyze/route.ts).         *)
(*                                                                         *)
(* A text is a sequence of one-character strings (the grave accent is      *)
(* the string "BACKTICK").  A JSON value is a                              *)
(* tagged record [t, v]:                                                   *)
(*   t = "undefined" | "null" | "bool" | "num" | "str" | "arr" | "obj"     *)
(* with v a BOOLEAN, a natural number, a text, a sequence of values, or    *)
(* a sequence of <<key, value>> pairs in source order.                     *)
(*                                                                         *)
(* Domain of the texts enumerated below: no backslash, no '-', '+', '.',   *)
(* and no digit directly followed by 'e' or 'E'; JSON numbers are hence    *)
(* plain non-negative integer literals, and strings carry no escapes.      *)
(***************************************************************************)
EXTENDS Integers, Sequences, FiniteSets, TLC

\* ------------------------------------------------------------------ texts

Digits == <<"0", "1", "2", "3", "4", "5", "6", "7", "8", "9">>

IsDigit(c) == \E d \in 1..10 : Digits[d] = c

DigitValue(c) == (CHOOSE d \in 1..10 : Digits[d] = c) - 1

\* JSON whitespace, which String.prototype.trim strips as well.
IsSpace(c) == c \in {" ", "\n", "\t", "\r"}

\* Characters a JSON string literal may not hold unescaped.
IsControl(c) == c \in {"\n", "\t", "\r"}

\* Canonicalisation of the /i flag on the letters of the pattern.
LowerChar(c) ==
  CASE c = "J" -> "j"
    [] c = "S" -> "s"
    [] c = "O" -> "o"
    [] c = "N" -> "n"
    [] OTHER -> c

\* The grave accent U+0060, which a TLA+ string literal cannot hold.
Backtick == "BACKTICK"

FenceJson == <<Backtick, Backtick, Backtick, "j", "s", "o", "n">>

Fence == <<Backtick, Backtick, Backtick>>

\* Does pat occur in s at 1-based position i (ci: letters compared lower-cased)?
MatchesAt(s, i, pat, ci) ==
  /\ i + Len(pat) - 1 <= Len(s)
  /\ \A k \in 1..Len(pat) :
       IF ci THEN LowerChar(s[i + k - 1]) = pat[k] ELSE s[i + k - 1] = pat[k]

\* The position >= i of the first match of pat in s, Len(s) + 1 if there is none.
NextMatch(s, i, pat, ci) ==
  IF \E j \in i..Len(s) : MatchesAt(s, j, pat, ci)
  THEN CHOOSE j \in i..Len(s) :
         MatchesAt(s, j, pat, ci) /\ \A k \in i..(j - 1) : ~MatchesAt(s, k, pat, ci)
  ELSE Len(s) + 1

\* s from i on, cut at position m, where the next match of pat starts.
RemoveAt(s, i, m) == SubSeq(s, i, m - 1)

RECURSIVE RemoveFrom(_, _, _, _)
\* The text of s from i on without the matches of pat: the scan resumes right
\* after each match, and what was removed is never rescanned.
RemoveFrom(s, i, pat, ci) ==
  IF NextMatch(s, i, pat, ci) > Len(s) THEN SubSeq(s, i, Len(s))
  ELSE RemoveAt(s, i, NextMatch(s, i, pat, ci))
       \o RemoveFrom(s, NextMatch(s, i, pat, ci) + Len(pat), pat, ci)

\* s.replace(/pat/g, "")
RemoveAll(s, pat, ci) == RemoveFrom(s, 1, pat, ci)

RECURSIVE SkipSpace(_, _)
\* The first position >= i of s that holds no whitespace (Len(s) + 1 if none).
SkipSpace(s, i) ==
  IF i <= Len(s) /\ IsSpace(s[i]) THEN SkipSpace(s, i + 1) ELSE i

RECURSIVE SkipSpaceBack(_, _)
\* The last position <= i of s that holds no whitespace (0 if none).
SkipSpaceBack(s, i) ==
  IF i >= 1 /\ IsSpace(s[i]) THEN SkipSpaceBack(s, i - 1) ELSE i

\* String.prototype.trim
Trim(s) == SubSeq(s, SkipSpace(s, 1), SkipSpaceBack(s, Len(s)))

\* String.prototype.indexOf / lastIndexOf of one character: 0-based, -1 if absent.
IndexOf(s, c) ==
  IF \E i \in 1..Len(s) : s[i] = c
  THEN (CHOOSE i \in 1..Len(s) : s[i] = c /\ \A j \in 1..(i - 1) : s[j] # c) - 1
  ELSE -1

LastIndexOf(s, c) ==
  IF \E i \in 1..Len(s) : s[i] = c
  THEN (CHOOSE i \in 1..Len(s) : s[i] = c /\ \A j \in (i + 1)..Len(s) : s[j] # c) - 1
  ELSE -1

\* String.prototype.slice(from, to) for 0 <= from, to <= length: empty when to <= from.
Slice(s, from, to) == IF from < to THEN SubSeq(s, from + 1, to) ELSE <<>>

\* ------------------------------------------------------------ JSON values

JUndefined == [t |-> "undefined", v |-> FALSE]

JNull == [t |-> "null", v |-> FALSE]

JBool(b) == [t |-> "bool", v |-> b]

JNum(n) == [t |-> "num", v |-> n]

JStr(s) == [t |-> "str", v |-> s]

JArr(a) == [t |-> "arr", v |-> a]

JObj(m) == [t |-> "obj", v |-> m]

\* ------------------------------------------------------------- JSON.parse

ParseFail == [ok |-> FALSE, val |-> JUndefined, pos |-> 0]

ParseOk(val, pos) == [ok |-> TRUE, val |-> val, pos |-> pos]

RECURSIVE StringEnd(_, _)
\* The position of the quote closing a string whose text starts at i; 0 if the
\* string is unterminated or holds a raw control character.
StringEnd(s, i) ==
  IF i > Len(s) THEN 0
  ELSE IF s[i] = "\"" THEN i
  ELSE IF IsControl(s[i]) THEN 0
  ELSE StringEnd(s, i + 1)

\* A string literal whose opening quote is at i.
ParseString(s, i) ==
  LET e == StringEnd(s, i + 1)
  IN  IF e = 0 THEN ParseFail ELSE ParseOk(JStr(SubSeq(s, i + 1, e - 1)), e + 1)

RECURSIVE DigitsEnd(_, _)
\* The first position >= i of s that holds no digit.
DigitsEnd(s, i) ==
  IF i <= Len(s) /\ IsDigit(s[i]) THEN DigitsEnd(s, i + 1) ELSE i

RECURSIVE DigitsValue(_, _, _)
DigitsValue(s, i, e) ==
  IF e < i THEN 0 ELSE DigitsValue(s, i, e - 1) * 10 + DigitValue(s[e])

\* An integer literal starting at i: "0", or a non-zero digit and more digits.
ParseNumber(s, i) ==
  LET e == IF s[i] = "0" THEN i + 1 ELSE DigitsEnd(s, i)
  IN  ParseOk(JNum(DigitsValue(s, i, e - 1)), e)

ParseLiteral(s, i, word, val) ==
  IF MatchesAt(s, i, word, FALSE) THEN ParseOk(val, i + Len(word)) ELSE ParseFail

RECURSIVE ParseValue(_, _)
RECURSIVE ParseElements(_, _, _)
RECURSIVE ParseMembers(_, _, _)

\* The elements of an array after '[' or ',': i is at the next element.
ParseElements(s, i, acc) ==
  LET r == ParseValue(s, i)
      j == SkipSpace(s, r.pos)
  IN  IF ~r.ok \/ j > Len(s) THEN ParseFail
      ELSE IF s[j] = "]" THEN ParseOk(JArr(Append(acc, r.val)), j + 1)
      ELSE IF s[j] = "," THEN ParseElements(s, SkipSpace(s, j + 1), Append(acc, r.val))
      ELSE ParseFail

\* The members of an object after '{' or ',': i is at the next key.
ParseMembers(s, i, acc) ==
  IF i > Len(s) \/ s[i] # "\"" THEN ParseFail
  ELSE
    LET k == ParseString(s, i)
        c == SkipSpace(s, k.pos)
    IN  IF ~k.ok \/ c > Len(s) \/ s[c] # ":" THEN ParseFail
        ELSE
          LET r == ParseValue(s, SkipSpace(s, c + 1))
              j == SkipSpace(s, r.pos)
              m == Append(acc, <<k.val.v, r.val>>)
          IN  IF ~r.ok \/ j > Len(s) THEN ParseFail
              ELSE IF s[j] = "}" THEN ParseOk(JObj(m), j + 1)
              ELSE IF s[j] = "," THEN ParseMembers(s, SkipSpace(s, j + 1), m)
              ELSE ParseFail

\* The JSON value starting at position i (no leading whitespace).
ParseValue(s, i) ==
  IF i > Len(s) THEN ParseFail
  ELSE IF s[i] = "{" THEN
    LET j == SkipSpace(s, i + 1)
    IN  IF j <= Len(s) /\ s[j] = "}" THEN ParseOk(JObj(<<>>), j + 1)
        ELSE ParseMembers(s, j, <<>>)
  ELSE IF s[i] = "[" THEN
    LET j == SkipSpace(s, i + 1)
    IN  IF j <= Len(s) /\ s[j] = "]" THEN ParseOk(JArr(<<>>), j + 1)
        ELSE ParseElements(s, j, <<>>)
  ELSE IF s[i] = "\"" THEN ParseString(s, i)
  ELSE IF IsDigit(s[i]) THEN ParseNumber(s, i)
  ELSE IF s[i] = "t" THEN ParseLiteral(s, i, <<"t", "r", "u", "e">>, JBool(TRUE))
  ELSE IF s[i] = "f" THEN ParseLiteral(s, i, <<"f", "a", "l", "s", "e">>, JBool(FALSE))
  ELSE IF s[i] = "n" THEN ParseLiteral(s, i, <<"n", "u", "l", "l">>, JNull)
  ELSE ParseFail

\* JSON.parse(s): one value with whitespace around it and nothing else;
\* ok = FALSE stands for the SyntaxError it throws.
JSON_parse(s) ==
  LET r == ParseValue(s, SkipSpace(s, 1))
  IN  IF r.ok /\ SkipSpace(s, r.pos) = Len(s) + 1
      THEN [ok |-> TRUE, val |-> r.val]
      ELSE [ok |-> FALSE, val |-> JUndefined]

\* ------------------------------------------------- property names, defaults

Key_dishName == <<"d", "i", "s", "h", "N", "a", "m", "e">>

Key_shortDescription ==
  <<"s", "h", "o", "r", "t", "D", "e", "s", "c", "r", "i", "p", "t", "i", "o", "n">>

Key_cuisine == <<"c", "u", "i", "s", "i", "n", "e">>

Key_difficulty == <<"d", "i", "f", "f", "i", "c", "u", "l", "t", "y">>

Key_servings == <<"s", "e", "r", "v", "i", "n", "g", "s">>

Key_prepTime == <<"p", "r", "e", "p", "T", "i", "m", "e">>

Key_cookTime == <<"c", "o", "o", "k", "T", "i", "m", "e">>

Key_caloriesPerServing ==
  <<"c", "a", "l", "o", "r", "i", "e", "s", "P", "e", "r", "S", "e", "r", "v", "i", "n",
    "g">>

Key_ingredients == <<"i", "n", "g", "r", "e", "d", "i", "e", "n", "t", "s">>

Key_instructions == <<"i", "n", "s", "t", "r", "u", "c", "t", "i", "o", "n", "s">>

Key_platingTips == <<"p", "l", "a", "t", "i", "n", "g", "T", "i", "p", "s">>

Key_item == <<"i", "t", "e", "m">>

Key_amount == <<"a", "m", "o", "u", "n", "t">>

Key_toString == <<"t", "o", "S", "t", "r", "i", "n", "g">>

UnknownDish == <<"U", "n", "k", "n", "o", "w", "n", " ", "D", "i", "s", "h">>

DefaultDescription ==
  <<"A", " ", "f", "l", "a", "v", "o", "r", "f", "u", "l", " ", "d", "i", "s", "h", " ",
    "g", "e", "n", "e", "r", "a", "t", "e", "d", " ", "f", "r", "o", "m", " ", "y", "o",
    "u", "r", " ", "p", "h", "o", "t", "o", ".">>

Fusion == <<"F", "u", "s", "i", "o", "n">>

Easy == <<"E", "a", "s", "y">>

Medium == <<"M", "e", "d", "i", "u", "m">>

Hard == <<"H", "a", "r", "d">>

DefaultServings == <<"2", "-", "3">>

DefaultPrepTime == <<"2", "0", " ", "m", "i", "n">>

DefaultCookTime == <<"3", "0", " ", "m", "i", "n">>

DefaultCalories ==
  <<"A", "p", "p", "r", "o", "x", ".", " ", "4", "5", "0", " ", "k", "c", "a", "l">>

DefaultItem == <<"I", "n", "g", "r", "e", "d", "i", "e", "n", "t">>

DefaultAmount == <<"T", "o", " ", "t", "a", "s", "t", "e">>

ObjectObject ==
  <<"[", "o", "b", "j", "e", "c", "t", " ", "O", "b", "j", "e", "c", "t", "]">>

\* ------------------------------------------------------ JavaScript values

\* ToBoolean(x), as used by ||, && and filter(Boolean).
Truthy(x) ==
  CASE x.t = "undefined" -> FALSE
    [] x.t = "null" -> FALSE
    [] x.t = "bool" -> x.v
    [] x.t = "num" -> x.v # 0
    [] x.t = "str" -> x.v # <<>>
    [] OTHER -> TRUE

\* a || b
OrElse(a, b) == IF Truthy(a) THEN a ELSE b

\* typeof x === "object"
TypeofObject(x) == x.t \in {"null", "arr", "obj"}

HasOwn(x, key) == x.t = "obj" /\ \E i \in 1..Len(x.v) : x.v[i][1] = key

\* x[key] for one of the property names above, x not null: the value of the
\* last member of that name of an object (JSON.parse keeps the last duplicate),
\* undefined on anything else (no prototype holds these names).
Get(x, key) ==
  IF HasOwn(x, key)
  THEN x.v[CHOOSE i \in 1..Len(x.v) :
             x.v[i][1] = key /\ \A j \in (i + 1)..Len(x.v) : x.v[j][1] # key][2]
  ELSE JUndefined

RECURSIVE NumberToString(_)
NumberToString(n) ==
  IF n < 10 THEN <<Digits[n + 1]>>
  ELSE NumberToString(n \div 10) \o <<Digits[(n % 10) + 1]>>

StrOk(s) == [ok |-> TRUE, s |-> s]

\* The TypeError "Cannot convert object to primitive value".
StrThrow == [ok |-> FALSE, s |-> <<>>]

RECURSIVE ToStr(_)
RECURSIVE JoinFrom(_, _)

\* The elements i.. of an array joined by ",", null and undefined as "".
JoinFrom(a, i) ==
  IF i > Len(a) THEN StrOk(<<>>)
  ELSE
    LET e == IF a[i].t \in {"null", "undefined"} THEN StrOk(<<>>) ELSE ToStr(a[i])
        rest == JoinFrom(a, i + 1)
    IN  IF ~e.ok \/ ~rest.ok THEN StrThrow
        ELSE StrOk(e.s \o (IF i < Len(a) THEN <<",">> \o rest.s ELSE <<>>))

\* String(x).  An object parsed from JSON with an own member "toString" has a
\* toString that is not callable, and Object.prototype.valueOf returns the
\* object itself (as does a non-callable own valueOf): ToPrimitive throws.
ToStr(x) ==
  CASE x.t = "undefined" -> StrOk(<<"u", "n", "d", "e", "f", "i", "n", "e", "d">>)
    [] x.t = "null" -> StrOk(<<"n", "u", "l", "l">>)
    [] x.t = "bool" ->
         StrOk(IF x.v THEN <<"t", "r", "u", "e">> ELSE <<"f", "a", "l", "s", "e">>)
    [] x.t = "num" -> StrOk(NumberToString(x.v))
    [] x.t = "str" -> StrOk(x.v)
    [] x.t = "arr" -> JoinFrom(x.v, 1)
    [] OTHER -> IF HasOwn(x, Key_toString) THEN StrThrow ELSE StrOk(ObjectObject)

\* --------------------------------------------------------- parseModelJson

\* The fences removed without the i flag: only a lower-case tag goes with its
\* fence.
Cleaned_CaseSensitive(text) ==
  Trim(RemoveAll(RemoveAll(text, FenceJson, FALSE), Fence, FALSE))

\* raw.replace(/```json/gi, "").replace(/```/g, "").trim()
Cleaned(text) == Trim(RemoveAll(RemoveAll(text, FenceJson, TRUE), Fence, FALSE))

\* The candidate without the search for braces: the cleaned text as it is.
JsonString_WholeText(text) == Cleaned(text)

\* The text handed to JSON.parse.
JsonString(text) ==
  LET cleaned == Cleaned(text)
      firstBrace == IndexOf(cleaned, "{")
      lastBrace == LastIndexOf(cleaned, "}")
  IN  IF firstBrace # -1 /\ lastBrace # -1
      THEN Slice(cleaned, firstBrace, lastBrace + 1)
      ELSE cleaned

\* A text field read without its fallback: parsed.f
TextField_NoFallback(parsed, key, fallback) == Get(parsed, key)

\* parsed.f || fallback
TextField(parsed, key, fallback) == OrElse(Get(parsed, key), JStr(fallback))

\* The difficulty without the lookup of the answer's value: always the fallback.
DifficultyField_AlwaysMedium(parsed) == JStr(Medium)

\* The conditional of lines 40-42.
DifficultyField(parsed) ==
  LET d == OrElse(Get(parsed, Key_difficulty), JStr(<<>>))
  IN  IF d.t = "str" /\ d.v \in {Easy, Medium, Hard} THEN d ELSE JStr(Medium)

RECURSIVE IngredientsFrom(_, _)
IngredientsFrom(a, i) ==
  IF i > Len(a) THEN <<>>
  ELSE IF Truthy(a[i]) /\ TypeofObject(a[i])
  THEN <<[item |-> OrElse(Get(a[i], Key_item), JStr(DefaultItem)),
          amount |-> OrElse(Get(a[i], Key_amount), JStr(DefaultAmount))]>>
       \o IngredientsFrom(a, i + 1)
  ELSE IngredientsFrom(a, i + 1)

IngredientsField(parsed) ==
  LET v == Get(parsed, Key_ingredients)
  IN  IF v.t = "arr" THEN IngredientsFrom(v.v, 1) ELSE <<>>

RECURSIVE StringsFrom(_, _)
\* a.map((x) => String(x)).filter(Boolean) from element i on; ok = FALSE when
\* String throws.
StringsFrom(a, i) ==
  IF i > Len(a) THEN [ok |-> TRUE, list |-> <<>>]
  ELSE
    LET e == ToStr(a[i])
        rest == StringsFrom(a, i + 1)
    IN  IF ~e.ok \/ ~rest.ok THEN [ok |-> FALSE, list |-> <<>>]
        ELSE [ok |-> TRUE,
              list |-> (IF Truthy(JStr(e.s)) THEN <<JStr(e.s)>> ELSE <<>>) \o rest.list]

\* Array.isArray(parsed.f) ? parsed.f.map((x) => String(x)).filter(Boolean) : []
StringListField(parsed, key) ==
  LET v == Get(parsed, key)
  IN  IF v.t = "arr" THEN StringsFrom(v.v, 1) ELSE [ok |-> TRUE, list |-> <<>>]

Returned(result) == [threw |-> FALSE, error |-> "none", recipe |-> result]

Thrown(name) == [threw |-> TRUE, error |-> name, recipe |-> <<>>]

\* The object literal of lines 35-61, of the value JSON.parse returned.
Populate(parsed, instructions, platingTips) ==
  IF ~instructions.ok \/ ~platingTips.ok THEN Thrown("TypeError")
  ELSE Returned(
    [dishName |-> TextField(parsed, Key_dishName, UnknownDish),
     shortDescription |-> TextField(parsed, Key_shortDescription, DefaultDescription),
     cuisine |-> TextField(parsed, Key_cuisine, Fusion),
     difficulty |-> DifficultyField(parsed),
     servings |-> TextField(parsed, Key_servings, DefaultServings),
     prepTime |-> TextField(parsed, Key_prepTime, DefaultPrepTime),
     cookTime |-> TextField(parsed, Key_cookTime, DefaultCookTime),
     caloriesPerServing |-> TextField(parsed, Key_caloriesPerServing, DefaultCalories),
     ingredients |-> IngredientsField(parsed),
     instructions |-> instructions.list,
     platingTips |-> platingTips.list])

\* parseModelJson with a test that the parsed value is an object: any other
\* value throws.
FromParsed_RejectNonObject(p) ==
  IF ~p.ok THEN Thrown("SyntaxError")
  ELSE IF p.val.t # "obj" THEN Thrown("TypeError")
  ELSE Populate(p.val, StringListField(p.val, Key_instructions),
                StringListField(p.val, Key_platingTips))

\* Lines 33-61 on what JSON.parse did: its SyntaxError, the TypeError of a
\* property read on null, or the populated object.
FromParsed(p) ==
  IF ~p.ok THEN Thrown("SyntaxError")
  ELSE IF p.val.t = "null" THEN Thrown("TypeError")
  ELSE Populate(p.val, StringListField(p.val, Key_instructions),
                StringListField(p.val, Key_platingTips))

\* parseModelJson(raw): the Recipe it returns, or the error it throws.
parseModelJson(text) == FromParsed(JSON_parse(JsonString(text)))

\* ------------------------------------------------------------------- POST

ALLOWED_MIME_TYPES == {"image/jpeg", "image/png", "image/webp"}

MAX_SERVER_IMAGE_BYTES == 1500000

\* String.prototype.toLowerCase on the media types a request may declare.
ToLowerCase(type) ==
  CASE type = "IMAGE/PNG" -> "image/png"
    [] type = "Image/WebP" -> "image/webp"
    [] OTHER -> type

MissingKeyMessage == "Missing GEMINI_API_KEY (or GOOGLE_API_KEY)."

NoImageMessage == "No image uploaded."

UnsupportedTypeMessage == "Unsupported image type. Use JPG, PNG, or WebP."

TooLargeMessage ==
  "Image is too large. Please retake the photo with better lighting or upload a smaller image."

FailedMessage == "Failed to analyze image and generate recipe."

\* The properties of the returned object that hold a JSON value or a list.
ScalarFields ==
  {"dishName", "shortDescription", "cuisine", "difficulty", "servings", "prepTime",
   "cookTime", "caloriesPerServing"}

ListFields == {"ingredients", "instructions", "platingTips"}

\* NextResponse.json(body, {status}): JSON.stringify leaves out the properties
\* whose value is undefined.
JsonResponse(body, status) ==
  [status |-> status,
   body |-> [k \in {f \in DOMAIN body :
                      ~(f \in ScalarFields /\ body[f].t = "undefined")} |-> body[k]]]

ErrorResponse(message, status) == [status |-> status, body |-> [error |-> message]]

NoResponse == [status |-> 0, body |-> <<>>]

VARIABLES
  apiKey,       \* is GEMINI_API_KEY or GOOGLE_API_KEY set to a non-blank value
  request,      \* the request: its form, the "image" entry, its type and size
  pc,           \* where the handler stands
  modelCalls,   \* how many times generateContent was called
  text,         \* result.response.text(), once the model has answered
  parsed,       \* what parseModelJson(text) returned or threw
  response      \* the response the handler returned

\* The state of the page component Home (src/app/page.tsx, lines 205-434).
VARIABLES
  previewUrl,        \* id of the file the preview URL shows, 0 for null
  cachedFile,        \* the cached File, NoFile for null
  cachedFromCamera,  \* the state cachedFromCamera
  cameraOpen,        \* the state cameraOpen; the <video> is mounted while it holds
  recipe,            \* id of the file whose analysis is displayed, 0 for null
  error,             \* the error message displayed, "null" for none
  loading,           \* the state loading
  streamRef,         \* streamRef.current: id of a media stream, 0 for null
  running,           \* ids of the acquired streams whose tracks still run
  tasks,             \* the handler invocations that stand at an await
  calls,             \* how many handler invocations were started
  mounted            \* is the component mounted

serverVars == <<apiKey, request, pc, modelCalls, text, parsed, response>>

pageVars ==
  <<previewUrl, cachedFile, cachedFromCamera, cameraOpen, recipe, error, loading,
    streamRef, running, tasks, calls, mounted>>

vars == <<serverVars, pageVars>>

\* ----------------------------------------------------- the model's answers

\* JSON.stringify(x) of a value whose strings need no escape: the compact
\* text of one answer of the model.
RECURSIVE Stringify(_)
RECURSIVE StringifyElements(_, _)
RECURSIVE StringifyMembers(_, _)

StringifyElements(a, i) ==
  IF i > Len(a) THEN <<>>
  ELSE Stringify(a[i])
       \o (IF i < Len(a) THEN <<",">> \o StringifyElements(a, i + 1) ELSE <<>>)

StringifyMembers(m, i) ==
  IF i > Len(m) THEN <<>>
  ELSE <<"\"">> \o m[i][1] \o <<"\"", ":">> \o Stringify(m[i][2])
       \o (IF i < Len(m) THEN <<",">> \o StringifyMembers(m, i + 1) ELSE <<>>)

Stringify(x) ==
  CASE x.t = "null" -> <<"n", "u", "l", "l">>
    [] x.t = "bool" -> IF x.v THEN <<"t", "r", "u", "e">> ELSE <<"f", "a", "l", "s", "e">>
    [] x.t = "num" -> NumberToString(x.v)
    [] x.t = "str" -> <<"\"">> \o x.v \o <<"\"">>
    [] x.t = "arr" -> <<"[">> \o StringifyElements(x.v, 1) \o <<"]">>
    [] x.t = "obj" -> <<"{">> \o StringifyMembers(x.v, 1) \o <<"}">>

\* The object x with its member key set to v (appended if x has none).
WithField(x, key, v) ==
  IF HasOwn(x, key)
  THEN JObj([i \in 1..Len(x.v) |-> IF x.v[i][1] = key THEN <<key, v>> ELSE x.v[i]])
  ELSE JObj(Append(x.v, <<key, v>>))

\* The object x without its members named key.
Without(x, key) == JObj(SelectSeq(x.v, LAMBDA m : m[1] # key))

Tacos == <<"T", "a", "c", "o", "s">>

Corn == <<"C", "o", "r", "n">>

Lime == <<"L", "i", "m", "e">>

TwoCups == <<"2", " ", "c", "u", "p", "s">>

Mix == <<"M", "i", "x">>

Cook == <<"C", "o", "o", "k">>

StepTwo == <<"S", "t", "e", "p", " ", "t", "w", "o">>

LowerEasy == <<"e", "a", "s", "y">>

SpacedEasy == <<" ", "E", "a", "s", "y">>

FieldKeys ==
  {Key_dishName, Key_shortDescription, Key_cuisine, Key_difficulty, Key_servings,
   Key_prepTime, Key_cookTime, Key_caloriesPerServing, Key_ingredients,
   Key_instructions, Key_platingTips}

\* The values an answer may give a field: every JSON type, empty and not.
FieldValues ==
  {JNull, JBool(TRUE), JBool(FALSE), JNum(0), JNum(5),
   JStr(<<>>), JStr(Tacos), JStr(Easy), JStr(Medium), JStr(Hard),
   JStr(LowerEasy), JStr(SpacedEasy),
   JObj(<<>>), JObj(<<<<Key_item, JStr(Corn)>>>>), JObj(<<<<Key_toString, JNum(1)>>>>),
   JArr(<<>>),
   JArr(<<JNum(1), JStr(<<>>), JStr(StepTwo), JNull>>),
   JArr(<<JStr(Mix), JStr(Cook)>>),
   JArr(<<JNum(0), JBool(FALSE), JBool(TRUE), JArr(<<>>), JObj(<<>>)>>),
   JArr(<<JArr(<<JNum(1), JArr(<<JNull, JNum(2)>>)>>)>>),
   JArr(<<JObj(<<<<Key_toString, JNum(1)>>>>)>>),
   JArr(<<JObj(<<<<Key_item, JStr(Corn)>>, <<Key_amount, JStr(TwoCups)>>>>),
          JObj(<<<<Key_item, JStr(Lime)>>>>)>>),
   JArr(<<JObj(<<<<Key_amount, JNum(1)>>>>), JStr(Corn), JNum(3), JNull,
          JArr(<<JNum(1)>>), JObj(<<>>), JBool(TRUE),
          JObj(<<<<Key_item, JStr(<<>>)>>, <<Key_amount, JNum(0)>>>>)>>)}

EmptyObject == JObj(<<>>)

\* An answer that follows the prompt's schema.
FullObject ==
  JObj(<<<<Key_dishName, JStr(Tacos)>>,
         <<Key_shortDescription, JStr(<<"Y", "u", "m">>)>>,
         <<Key_cuisine, JStr(<<"M", "e", "x">>)>>,
         <<Key_difficulty, JStr(Hard)>>,
         <<Key_servings, JStr(<<"4">>)>>,
         <<Key_prepTime, JStr(<<"5", " ", "m", "i", "n">>)>>,
         <<Key_cookTime, JStr(<<"9", " ", "m", "i", "n">>)>>,
         <<Key_caloriesPerServing, JStr(<<"3", "0", "0">>)>>,
         <<Key_ingredients,
           JArr(<<JObj(<<<<Key_item, JStr(Corn)>>, <<Key_amount, JStr(TwoCups)>>>>),
                  JObj(<<<<Key_item, JStr(Lime)>>, <<Key_amount, JStr(<<"1">>)>>>>)>>)>>,
         <<Key_instructions, JArr(<<JStr(Mix), JStr(Cook)>>)>>,
         <<Key_platingTips, JArr(<<JStr(<<"S", "e", "r", "v", "e">>)>>)>>>>)

\* An answer whose platingTips cannot be turned into text.
UnprintableTips ==
  JObj(<<<<Key_platingTips, JArr(<<JObj(<<<<Key_toString, JNum(1)>>>>)>>)>>>>)

\* Objects: the empty and the full one, each with one field changed or dropped;
\* the one with unprintable tips and a second field; one with a member twice.
ObjectAnswers ==
  {EmptyObject, FullObject}
    \cup {WithField(b, k, v) : b \in {EmptyObject, FullObject}, k \in FieldKeys,
                               v \in FieldValues}
    \cup {Without(FullObject, k) : k \in FieldKeys}
    \cup {WithField(UnprintableTips, k, v) :
            k \in FieldKeys \ {Key_platingTips}, v \in {JNum(5), JStr(Tacos)}}
    \cup {JObj(<<<<Key_cuisine, JStr(Tacos)>>, <<Key_cuisine, JNull>>>>)}

\* Answers that are valid JSON and no object.
OtherAnswers ==
  {JNull, JBool(TRUE), JNum(5), JStr(Tacos), JStr(<<"}", "{">>), JStr(<<"{">>),
   JArr(<<>>), JArr(<<JNum(1)>>), JArr(<<JObj(<<<<Key_dishName, JStr(Tacos)>>>>)>>)}

\* What the model may put around its JSON: nothing, prose, markdown fences.
Wrappers ==
  {[pre |-> <<>>, post |-> <<>>],
   [pre |-> <<" ", "\n">>, post |-> <<"\n">>],
   [pre |-> <<"S", "u", "r", "e", "!", " ", "H", "e", "r", "e", ":", "\n">>,
    post |-> <<"\n", "E", "n", "j", "o", "y", "!">>],
   [pre |-> FenceJson \o <<"\n">>, post |-> <<"\n">> \o Fence],
   [pre |-> Fence \o <<"J", "S", "O", "N", "\n">>, post |-> <<"\n">> \o Fence],
   [pre |-> Fence \o <<"\n">>, post |-> <<"\n">> \o Fence \o <<"\n">>]}

WrappedAnswers ==
  {EmptyObject, FullObject, JNull, JNum(5), JStr(<<"}", "{">>),
   WithField(EmptyObject, Key_dishName, JStr(Tacos)),
   WithField(EmptyObject, Key_instructions,
             JArr(<<JNum(1), JStr(<<>>), JStr(StepTwo), JNull>>))}

\* Answers that are no JSON: prose, broken or repeated objects.
ProseTexts ==
  {<<"S", "o", "r", "r", "y", ".">>,
   <<"a", " ", "}", " ", "b", " ", "{", " ", "c">>,
   <<"{", "}", " ", "{", "}">>,
   <<"{", "\"", "c", "u", "i", "s", "i", "n", "e", "\"", ":", "1", ",", "}">>,
   <<"{", "c", "u", "i", "s", "i", "n", "e", ":", "1", "}">>,
   <<"{", "\"", "c", "u", "i", "s", "i", "n", "e", "\"", ":", "0", "1", "}">>,
   <<"{", "\"", "c", "u", "i", "s", "i", "n", "e", "\"", ":", "\"", "a", "\n", "b", "\"", "}">>,
   <<"n", "u", "l", "l", " ", "n", "u", "l", "l">>}

\* Every text of at most MaxTextLen of these characters.
ShortAlphabet == {"{", "}", "\"", "1", "[", "]"}

MaxTextLen == 3

ShortTexts == UNION {[1..n -> ShortAlphabet] : n \in 0..MaxTextLen}

\* More answers that follow the schema: the members in another order, an
\* empty text as an instruction, as an item and as an amount.
SchemaAnswers ==
  {JObj([i \in 1..Len(FullObject.v) |-> FullObject.v[Len(FullObject.v) + 1 - i]]),
   WithField(FullObject, Key_instructions, JArr(<<JStr(Mix), JStr(<<>>), JStr(Cook)>>)),
   WithField(FullObject, Key_ingredients,
             JArr(<<JObj(<<<<Key_amount, JStr(TwoCups)>>, <<Key_item, JStr(Corn)>>>>)>>)),
   WithField(FullObject, Key_ingredients,
             JArr(<<JObj(<<<<Key_item, JStr(<<>>)>>, <<Key_amount, JStr(TwoCups)>>>>)>>)),
   WithField(FullObject, Key_ingredients,
             JArr(<<JObj(<<<<Key_item, JStr(Corn)>>, <<Key_amount, JStr(<<>>)>>>>)>>))}

RawTexts ==
  {Stringify(x) : x \in ObjectAnswers \cup OtherAnswers \cup SchemaAnswers}
    \cup {w.pre \o Stringify(x) \o w.post : w \in Wrappers, x \in WrappedAnswers}
    \cup ProseTexts
    \cup ShortTexts

\* The requests: the server's key, the form and its "image" entry.
Requests ==
  [form : {"multipart", "malformed"},
   image : {"File", "string", "null"},
   type : {"image/jpeg", "Image/WebP", "image/gif", ""},
   size : {MAX_SERVER_IMAGE_BYTES, MAX_SERVER_IMAGE_BYTES + 1}]

\* ------------------------------------------------------- the page: values

MAX_UPLOAD_BYTES == 4194304

\* ALLOWED_MIME_TYPES of the page (line 203).
PageAllowedMimeTypes == {"image/jpeg", "image/png", "image/webp"}

\* The media types a selected file may have, and file.type.startsWith("image/")
\* on them.
FileTypes == {"image/jpeg", "image/png", "image/heic", "application/pdf"}

StartsWithImage(type) == type \in {"image/jpeg", "image/png", "image/webp", "image/heic"}

\* The byte lengths a selected or compressed file may have.
FileSizes == {MAX_UPLOAD_BYTES, MAX_UPLOAD_BYTES + 1}

\* The frame of the web camera, a JPEG of a canvas 960 pixels wide (lines
\* 347-360): its byte length.
FrameSize == 250000

\* A File; id is the number of the handler invocation that received or made it.
NoFile == [id |-> 0, type |-> "", size |-> 0]

NewFile(id, type, size) == [id |-> id, type |-> type, size |-> size]

NotImageMessage == "Please choose a valid image file."

NotAllowedMessage == "Use JPG, PNG, or WebP. HEIC/HEIF is not supported."

CompressedTooLargeMessage == "Image is too large after compression. Try another photo."

NoContextMessage == "Could not process image."

NoBlobMessage == "Could not compress image."

ImageErrorMessage == "Unsupported image format. Use JPG, PNG, or WebP."

CameraMessage == "Could not open camera. Please allow camera permission or use Upload."

CaptureMessage == "Could not capture image."

RequestFailedMessage == "Request failed. Please try again."

NoRecipeMessage == "No recipe data received."

NoCachedFileMessage == "Take or upload a photo first."

\* The message of the TypeError a fetch rejects with.
FetchErrorMessage == "Failed to fetch"

\* How many handler invocations one run of the page starts.
MaxCalls == 2

\* A handler invocation waiting at the await pc: its number, the file it
\* carries and, once fetch has resolved, response.ok.
Task(n, at, file, ok) == [n |-> n, pc |-> at, file |-> file, ok |-> ok]

\* The state of the hooks at the first render (lines 206-221).
PageIdle ==
  /\ previewUrl = 0
  /\ cachedFile = NoFile
  /\ cachedFromCamera = FALSE
  /\ cameraOpen = FALSE
  /\ recipe = 0
  /\ error = "null"
  /\ loading = FALSE
  /\ streamRef = 0
  /\ running = {}
  /\ tasks = {}
  /\ calls = 0
  /\ mounted = TRUE

\* ---------------------------------------------------------------- actions

NotParsed == [threw |-> FALSE, error |-> "not called", recipe |-> <<>>]

Init ==
  /\ apiKey \in BOOLEAN
  /\ request \in Requests
  /\ pc = "start"
  /\ modelCalls = 0
  /\ text = <<>>
  /\ parsed = NotParsed
  /\ response = NoResponse
  /\ PageIdle

Respond(r) == response' = r /\ pc' = "done"

\* Lines 66-74: the key is read; without one the handler answers 500.
CheckApiKey ==
  /\ pc = "start"
  /\ IF ~apiKey
     THEN Respond(ErrorResponse(MissingKeyMessage, 500))
     ELSE pc' = "formData" /\ UNCHANGED response
  /\ UNCHANGED <<apiKey, request, modelCalls, text, parsed>>
  /\ UNCHANGED pageVars

\* Lines 76-88: await req.formData() (it rejects on a body that is no form,
\* which the catch turns into the 500), then the entry and its media type.
ReadFormData ==
  /\ pc = "formData"
  /\ IF request.form # "multipart"
     THEN Respond(ErrorResponse(FailedMessage, 500))
     ELSE IF request.image # "File"
     THEN Respond(ErrorResponse(NoImageMessage, 400))
     ELSE IF ToLowerCase(request.type) \notin ALLOWED_MIME_TYPES
     THEN Respond(ErrorResponse(UnsupportedTypeMessage, 400))
     ELSE pc' = "arrayBuffer" /\ UNCHANGED response
  /\ UNCHANGED <<apiKey, request, modelCalls, text, parsed>>
  /\ UNCHANGED pageVars

\* The handler without the test of the byte length.
ReadBytes_NoSizeCheck ==
  /\ pc = "arrayBuffer"
  /\ pc' = "generateContent"
  /\ modelCalls' = modelCalls + 1
  /\ UNCHANGED <<apiKey, request, text, parsed, response>>
  /\ UNCHANGED pageVars

\* The handler with >= for > in the test of the byte length.
ReadBytes_AtLeast ==
  /\ pc = "arrayBuffer"
  /\ IF request.size >= MAX_SERVER_IMAGE_BYTES
     THEN Respond(ErrorResponse(TooLargeMessage, 413)) /\ UNCHANGED modelCalls
     ELSE /\ pc' = "generateContent"
          /\ modelCalls' = modelCalls + 1
          /\ UNCHANGED response
  /\ UNCHANGED <<apiKey, request, text, parsed>>
  /\ UNCHANGED pageVars

\* Lines 90-134: await file.arrayBuffer(), the size limit, then the call of
\* generateContent, which the handler awaits.
ReadBytes ==
  /\ pc = "arrayBuffer"
  /\ IF request.size > MAX_SERVER_IMAGE_BYTES
     THEN Respond(ErrorResponse(TooLargeMessage, 413)) /\ UNCHANGED modelCalls
     ELSE /\ pc' = "generateContent"
          /\ modelCalls' = modelCalls + 1
          /\ UNCHANGED response
  /\ UNCHANGED <<apiKey, request, text, parsed>>
  /\ UNCHANGED pageVars

\* The handler with a catch that answers with the error it caught.
ModelAnswers_LeakError(t) ==
  /\ pc = "generateContent"
  /\ text' = t
  /\ parsed' = parseModelJson(t)
  /\ IF parsed'.threw
     THEN Respond(ErrorResponse(parsed'.error, 500))
     ELSE Respond(JsonResponse(parsed'.recipe, 200))
  /\ UNCHANGED <<apiKey, request, modelCalls>>
  /\ UNCHANGED pageVars

\* Lines 136-145: the model answered t; parseModelJson(t) is returned as the
\* body, or its error is caught and answered with the 500.
ModelAnswers(t) ==
  /\ pc = "generateContent"
  /\ text' = t
  /\ parsed' = parseModelJson(t)
  /\ IF parsed'.threw
     THEN Respond(ErrorResponse(FailedMessage, 500))
     ELSE Respond(JsonResponse(parsed'.recipe, 200))
  /\ UNCHANGED <<apiKey, request, modelCalls>>
  /\ UNCHANGED pageVars

\* Lines 126-145: generateContent rejected, or the response has no text.
ModelFails ==
  /\ pc = "generateContent"
  /\ Respond(ErrorResponse(FailedMessage, 500))
  /\ UNCHANGED <<apiKey, request, modelCalls, text, parsed>>
  /\ UNCHANGED pageVars

Next ==
  \/ CheckApiKey
  \/ ReadFormData
  \/ ReadBytes
  \/ \E t \in RawTexts : ModelAnswers(t)
  \/ ModelFails

Spec == Init /\ [][Next]_vars

\* ------------------------------------------------------ the page: actions

\* The state changes of prepareImage once it accepts a file (lines 290-295 and
\* 304-310).
Prepared(file, fromCamera) ==
  /\ previewUrl' = (IF fromCamera THEN 0 ELSE file.id)
  /\ cachedFile' = file
  /\ cachedFromCamera' = fromCamera
  /\ recipe' = 0

\* analyzeFile(file) up to its await of fetch (lines 378-395), in the
\* invocation numbered n: the request is sent.
AnalyzeFileStarts(n, file, others) ==
  /\ loading' = TRUE
  /\ error' = "null"
  /\ tasks' = others \cup {Task(n, "fetch", file, FALSE)}

\* stopCamera() (lines 336-342).
StopCamera ==
  /\ running' = (IF streamRef # 0 THEN running \ {streamRef} ELSE running)
  /\ streamRef' = 0
  /\ cameraOpen' = FALSE

\* onFileSelected(event, fromCamera) with a file of the given type and size,
\* up to its first await that waits (lines 423-434 with prepareImage, lines
\* 281-297): the rejection of a file, the caching of a camera photo, or the
\* start of the compression of an upload.
onFileSelected(fromCamera, type, size) ==
  LET file == NewFile(calls + 1, type, size)
  IN  /\ mounted
      /\ calls < MaxCalls
      /\ calls' = calls + 1
      /\ IF ~StartsWithImage(file.type)
         THEN /\ error' = NotImageMessage
              /\ UNCHANGED <<previewUrl, cachedFile, cachedFromCamera, recipe, tasks>>
         ELSE IF ToLowerCase(file.type) \notin PageAllowedMimeTypes
         THEN /\ error' = NotAllowedMessage
              /\ UNCHANGED <<previewUrl, cachedFile, cachedFromCamera, recipe, tasks>>
         ELSE IF fromCamera
         THEN /\ Prepared(file, TRUE)
              /\ error' = "null"
              /\ UNCHANGED tasks
         ELSE /\ error' = "null"
              /\ tasks' = tasks \cup {Task(calls + 1, "compressImage", file, FALSE)}
              /\ UNCHANGED <<previewUrl, cachedFile, cachedFromCamera, recipe>>
      /\ UNCHANGED <<cameraOpen, loading, streamRef, running>>
      /\ UNCHANGED <<mounted, serverVars>>

\* compressImageRejects with a catch that also discards the cached photo.
compressImageRejects_DropsCached(t, message) ==
  /\ mounted
  /\ t \in tasks
  /\ t.pc = "compressImage"
  /\ error' = message
  /\ previewUrl' = 0
  /\ cachedFile' = NoFile
  /\ tasks' = tasks \ {t}
  /\ UNCHANGED <<cachedFromCamera, cameraOpen, recipe, loading, streamRef, running, calls>>
  /\ UNCHANGED <<mounted, serverVars>>

\* compressImage rejects (lines 248, 264, 276) in the invocation t; the catch
\* of onFileSelected shows the message (line 431).
compressImageRejects(t, message) ==
  /\ mounted
  /\ t \in tasks
  /\ t.pc = "compressImage"
  /\ error' = message
  /\ tasks' = tasks \ {t}
  /\ UNCHANGED <<previewUrl, cachedFile, cachedFromCamera, cameraOpen, recipe, loading,
                 streamRef, running, calls>>
  /\ UNCHANGED <<mounted, serverVars>>

\* compressImage resolves with a JPEG of the given size (line 267); prepareImage
\* goes on (lines 300-311) and onFileSelected calls analyzeFile (line 429).
compressImageResolves(t, size) ==
  LET compressed == NewFile(t.n, "image/jpeg", size)
  IN  /\ mounted
      /\ t \in tasks
      /\ t.pc = "compressImage"
      /\ IF compressed.size > MAX_UPLOAD_BYTES
         THEN /\ error' = CompressedTooLargeMessage
              /\ tasks' = tasks \ {t}
              /\ UNCHANGED <<previewUrl, cachedFile, cachedFromCamera, recipe, loading>>
         ELSE /\ Prepared(compressed, FALSE)
              /\ AnalyzeFileStarts(t.n, compressed, tasks \ {t})
      /\ UNCHANGED <<cameraOpen, streamRef, running, calls>>
      /\ UNCHANGED <<mounted, serverVars>>

\* analyzeCachedImage() (lines 415-421), the handler of the button shown while
\* cachedFile && cachedFromCamera && !loading (line 518).
analyzeCachedImage ==
  /\ mounted
  /\ cachedFile # NoFile
  /\ cachedFromCamera
  /\ ~loading
  /\ calls < MaxCalls
  /\ calls' = calls + 1
  /\ IF cachedFile = NoFile
     THEN error' = NoCachedFileMessage /\ UNCHANGED <<loading, tasks>>
     ELSE AnalyzeFileStarts(calls + 1, cachedFile, tasks)
  /\ UNCHANGED <<previewUrl, cachedFile, cachedFromCamera, cameraOpen, recipe,
                 streamRef, running>>
  /\ UNCHANGED <<mounted, serverVars>>

\* fetch rejects: the catch and the finally of analyzeFile (lines 406-412).
fetchRejects(t) ==
  /\ mounted
  /\ t \in tasks
  /\ t.pc = "fetch"
  /\ error' = FetchErrorMessage
  /\ loading' = FALSE
  /\ tasks' = tasks \ {t}
  /\ UNCHANGED <<previewUrl, cachedFile, cachedFromCamera, cameraOpen, recipe,
                 streamRef, running, calls>>
  /\ UNCHANGED <<mounted, serverVars>>

\* fetch resolves with a response; analyzeFile awaits response.json() (line 398).
fetchResolves(t, ok) ==
  /\ mounted
  /\ t \in tasks
  /\ t.pc = "fetch"
  /\ tasks' = (tasks \ {t}) \cup {Task(t.n, "json", t.file, ok)}
  /\ UNCHANGED <<previewUrl, cachedFile, cachedFromCamera, cameraOpen, recipe, error,
                 loading, streamRef, running, calls>>
  /\ UNCHANGED <<mounted, serverVars>>

\* response.json() settles: payload is "recipe" for a Recipe, "error" for an
\* object with an error message, "null" when the body is no JSON (lines 398-412).
jsonSettles(t, payload) ==
  /\ mounted
  /\ t \in tasks
  /\ t.pc = "json"
  /\ payload \in (IF t.ok THEN {"recipe", "null"} ELSE {"error", "null"})
  /\ IF ~t.ok
     THEN /\ error' = (IF payload = "error" THEN FailedMessage ELSE RequestFailedMessage)
          /\ UNCHANGED recipe
     ELSE IF payload = "null"
     THEN error' = NoRecipeMessage /\ UNCHANGED recipe
     ELSE recipe' = t.file.id /\ UNCHANGED error
  /\ loading' = FALSE
  /\ tasks' = tasks \ {t}
  /\ UNCHANGED <<previewUrl, cachedFile, cachedFromCamera, cameraOpen, streamRef,
                 running, calls>>
  /\ UNCHANGED <<mounted, serverVars>>

\* openWebCamera() up to its await of getUserMedia (lines 314-324).
openWebCamera ==
  /\ mounted
  /\ calls < MaxCalls
  /\ calls' = calls + 1
  /\ error' = "null"
  /\ tasks' = tasks \cup {Task(calls + 1, "getUserMedia", NoFile, FALSE)}
  /\ UNCHANGED <<previewUrl, cachedFile, cachedFromCamera, cameraOpen, recipe, loading,
                 streamRef, running>>
  /\ UNCHANGED <<mounted, serverVars>>

\* getUserMedia rejects: the catch of openWebCamera (lines 331-333).
getUserMediaRejects(t) ==
  /\ mounted
  /\ t \in tasks
  /\ t.pc = "getUserMedia"
  /\ error' = CameraMessage
  /\ tasks' = tasks \ {t}
  /\ UNCHANGED <<previewUrl, cachedFile, cachedFromCamera, cameraOpen, recipe, loading,
                 streamRef, running, calls>>
  /\ UNCHANGED <<mounted, serverVars>>

\* getUserMedia resolves with a new stream (lines 325-330); the <video> exists
\* only if the camera section was rendered before, and then play() is awaited.
\* The continuation runs after an unmount too: the ref is assigned, while React
\* ignores setCameraOpen of the unmounted component.
getUserMediaResolves(t) ==
  /\ t \in tasks
  /\ t.pc = "getUserMedia"
  /\ streamRef' = t.n
  /\ running' = running \cup {t.n}
  /\ cameraOpen' = (IF mounted THEN TRUE ELSE cameraOpen)
  /\ tasks' = (tasks \ {t})
               \cup (IF cameraOpen THEN {Task(t.n, "play", NoFile, FALSE)} ELSE {})
  /\ UNCHANGED <<previewUrl, cachedFile, cachedFromCamera, recipe, error, loading, calls>>
  /\ UNCHANGED <<mounted, serverVars>>

\* video.play() settles (lines 329-333).
playSettles(t, played) ==
  /\ mounted
  /\ t \in tasks
  /\ t.pc = "play"
  /\ error' = (IF played THEN error ELSE CameraMessage)
  /\ tasks' = tasks \ {t}
  /\ UNCHANGED <<previewUrl, cachedFile, cachedFromCamera, cameraOpen, recipe, loading,
                 streamRef, running, calls>>
  /\ UNCHANGED <<mounted, serverVars>>

\* stopCamera() as the handler of the Cancel button of the camera section.
stopCamera ==
  /\ mounted
  /\ cameraOpen
  /\ StopCamera
  /\ UNCHANGED <<previewUrl, cachedFile, cachedFromCamera, recipe, error, loading,
                 tasks, calls>>
  /\ UNCHANGED <<mounted, serverVars>>

\* captureFromWebCamera() up to its await of canvas.toBlob (lines 344-361), the
\* handler of a button of the camera section; hasContext is getContext("2d").
captureFromWebCamera(hasContext) ==
  /\ mounted
  /\ cameraOpen
  /\ calls < MaxCalls
  /\ calls' = calls + 1
  /\ IF ~hasContext
     THEN error' = CaptureMessage /\ UNCHANGED tasks
     ELSE /\ tasks' = tasks \cup {Task(calls + 1, "toBlob", NoFile, FALSE)}
          /\ UNCHANGED error
  /\ UNCHANGED <<previewUrl, cachedFile, cachedFromCamera, cameraOpen, recipe, loading,
                 streamRef, running>>
  /\ UNCHANGED <<mounted, serverVars>>

\* canvas.toBlob calls back (lines 362-374): without a blob the error; with
\* one the camera is stopped, the frame is prepared as a camera photo and
\* analyzeFile is called.
toBlobSettles(t, hasBlob) ==
  LET file == NewFile(t.n, "image/jpeg", FrameSize)
  IN  /\ mounted
      /\ t \in tasks
      /\ t.pc = "toBlob"
      /\ IF ~hasBlob
         THEN /\ error' = CaptureMessage
              /\ tasks' = tasks \ {t}
              /\ UNCHANGED <<previewUrl, cachedFile, cachedFromCamera, cameraOpen, recipe,
                             loading, streamRef, running>>
         ELSE /\ StopCamera
              /\ Prepared(file, TRUE)
              /\ AnalyzeFileStarts(t.n, file, tasks \ {t})
      /\ UNCHANGED calls
      /\ UNCHANGED <<mounted, serverVars>>

\* The cleanup of the effect of lines 225-227 at the unmount of the component:
\* stopCamera(). The invocations that stand at an await go on afterwards.
unmount ==
  /\ mounted
  /\ mounted' = FALSE
  /\ StopCamera
  /\ UNCHANGED <<previewUrl, cachedFile, cachedFromCamera, recipe, error, loading,
                 tasks, calls>>
  /\ UNCHANGED serverVars

\* An await other than a resolving getUserMedia settles after the unmount: React
\* ignores the state setters, what is left is what the continuation does
\* outside the state. With ok the handler goes on: a compressed upload within
\* the limit and a captured frame are posted (lines 392-395), the frame after
\* stopCamera() (line 368), a response is read (line 398); otherwise, and at
\* every other await, the invocation ends.
settlesAfterUnmount(t, ok) ==
  /\ ~mounted
  /\ t \in tasks
  /\ t.pc = "getUserMedia" => ~ok
  /\ tasks' = (tasks \ {t}) \cup
       (IF ~ok THEN {}
        ELSE IF t.pc = "compressImage"
        THEN {Task(t.n, "fetch", NewFile(t.n, "image/jpeg", MAX_UPLOAD_BYTES), FALSE)}
        ELSE IF t.pc = "toBlob"
        THEN {Task(t.n, "fetch", NewFile(t.n, "image/jpeg", FrameSize), FALSE)}
        ELSE IF t.pc = "fetch"
        THEN {Task(t.n, "json", t.file, TRUE)}
        ELSE {})
  /\ IF ok /\ t.pc = "toBlob"
     THEN /\ running' = running \ {streamRef}
          /\ streamRef' = 0
     ELSE UNCHANGED <<running, streamRef>>
  /\ UNCHANGED <<previewUrl, cachedFile, cachedFromCamera, cameraOpen, recipe, error,
                 loading, calls, mounted>>
  /\ UNCHANGED serverVars

\* The handler of the route is not part of a run of the page.
ServerIdle ==
  /\ apiKey = TRUE
  /\ request = [form |-> "multipart", image |-> "File", type |-> "image/jpeg",
                size |-> MAX_SERVER_IMAGE_BYTES]
  /\ pc = "start"
  /\ modelCalls = 0
  /\ text = <<>>
  /\ parsed = NotParsed
  /\ response = NoResponse

PageInit == PageIdle /\ ServerIdle

PageNext ==
  \/ \E fromCamera \in BOOLEAN, type \in FileTypes, size \in FileSizes :
       onFileSelected(fromCamera, type, size)
  \/ \E t \in tasks, message \in {NoContextMessage, NoBlobMessage, ImageErrorMessage} :
       compressImageRejects(t, message)
  \/ \E t \in tasks, size \in FileSizes : compressImageResolves(t, size)
  \/ analyzeCachedImage
  \/ \E t \in tasks : fetchRejects(t)
  \/ \E t \in tasks, ok \in BOOLEAN : fetchResolves(t, ok)
  \/ \E t \in tasks, payload \in {"recipe", "error", "null"} : jsonSettles(t, payload)
  \/ openWebCamera
  \/ \E t \in tasks : getUserMediaRejects(t)
  \/ \E t \in tasks : getUserMediaResolves(t)
  \/ \E t \in tasks, played \in BOOLEAN : playSettles(t, played)
  \/ stopCamera
  \/ \E hasContext \in BOOLEAN : captureFromWebCamera(hasContext)
  \/ \E t \in tasks, hasBlob \in BOOLEAN : toBlobSettles(t, hasBlob)
  \/ unmount
  \/ \E t \in tasks, ok \in BOOLEAN : settlesAfterUnmount(t, ok)

PageSpec == PageInit /\ [][PageNext]_vars

\* ----------------------------------------------------------------- claims

\* parseModelJson ran on the model's answer.
Called == parsed.error # "not called"

\* parseModelJson returned a Recipe.
Returns == Called /\ ~parsed.threw

\* What JSON.parse makes of the JSON candidate of the answer.
Structure == JSON_parse(JsonString(text))

\* The text fields of the Recipe with their property names and fallbacks.
TextFields ==
  {[name |-> "dishName", key |-> Key_dishName, fallback |-> UnknownDish],
   [name |-> "shortDescription", key |-> Key_shortDescription,
    fallback |-> DefaultDescription],
   [name |-> "cuisine", key |-> Key_cuisine, fallback |-> Fusion],
   [name |-> "servings", key |-> Key_servings, fallback |-> DefaultServings],
   [name |-> "prepTime", key |-> Key_prepTime, fallback |-> DefaultPrepTime],
   [name |-> "cookTime", key |-> Key_cookTime, fallback |-> DefaultCookTime],
   [name |-> "caloriesPerServing", key |-> Key_caloriesPerServing,
    fallback |-> DefaultCalories]}

SequenceFields ==
  {[name |-> "ingredients", key |-> Key_ingredients],
   [name |-> "instructions", key |-> Key_instructions],
   [name |-> "platingTips", key |-> Key_platingTips]}

\* The member key of the answer x, whose call failed, is not what made it
\* fail: parseModelJson throws on the answer without that member too.
OnlyFailsWithout(x, key) ==
  HasOwn(x, key) => parseModelJson(Stringify(Without(x, key))).threw

\* C1: whenever parseModelJson returns, every text field of the Recipe is a
\* text, difficulty is Easy, Medium or Hard, every ingredient has a text item and
\* a text amount, and instructions and platingTips hold texts only.
C1_FullyPopulatedAndTyped ==
  Returns =>
    /\ \A f \in ScalarFields : parsed.recipe[f].t = "str"
    /\ parsed.recipe.difficulty.v \in {Easy, Medium, Hard}
    /\ \A i \in 1..Len(parsed.recipe.ingredients) :
         /\ parsed.recipe.ingredients[i].item.t = "str"
         /\ parsed.recipe.ingredients[i].amount.t = "str"
    /\ \A i \in 1..Len(parsed.recipe.instructions) :
         parsed.recipe.instructions[i].t = "str"
    /\ \A i \in 1..Len(parsed.recipe.platingTips) :
         parsed.recipe.platingTips[i].t = "str"

\* C2: parseModelJson throws only when the JSON candidate is no valid JSON:
\* whenever the candidate parses, whatever value it is, a Recipe is returned.
C2_ThrowsOnlyOnSyntaxError == (Called /\ Structure.ok) => ~parsed.threw

\* C3: every response is a 200 whose body has all eleven Recipe fields, or a
\* non-2xx whose body has the error message alone; never a part of a Recipe.
C3_AllOrNothing ==
  \/ pc # "done" /\ response.status = 0
  \/ /\ pc = "done"
     /\ response.status = 200
     /\ DOMAIN response.body = ScalarFields \cup ListFields
  \/ /\ pc = "done"
     /\ response.status \in {400, 413, 500}
     /\ DOMAIN response.body = {"error"}

\* A 200 for the answer {}: every field of the body is a fallback.
C3_Witness ==
  /\ pc = "done"
  /\ response.status = 200
  /\ text = <<"{", "}">>
  /\ response.body.cuisine = JStr(Fusion)

RECURSIVE ClaimedTexts(_, _)
\* The list C4 states: the elements from i on as texts, in order, without the
\* null elements and without those whose text is empty.
ClaimedTexts(a, i) ==
  IF i > Len(a) THEN <<>>
  ELSE IF a[i].t = "null" \/ ToStr(a[i]).s = <<>> THEN ClaimedTexts(a, i + 1)
  ELSE <<JStr(ToStr(a[i]).s)>> \o ClaimedTexts(a, i + 1)

\* C4 of the answer's structure x and the Recipe returned for it.
MixedSequencesOf(x, got) ==
  /\ Get(x, Key_instructions).t = "arr" =>
       got.instructions = ClaimedTexts(Get(x, Key_instructions).v, 1)
  /\ Get(x, Key_platingTips).t = "arr" =>
       got.platingTips = ClaimedTexts(Get(x, Key_platingTips).v, 1)

\* C4: when instructions (or platingTips) is a sequence of mixed elements, the
\* result holds the elements as texts, in order, the empty strings and the
\* nulls dropped: [1, "", "Step two", null] gives ["1", "Step two"].
C4_MixedSequences == Returns => MixedSequencesOf(Structure.val, parsed.recipe)

\* The cleaned answer holds neither brace.
NoBraces == IndexOf(Cleaned(text), "{") = -1 /\ LastIndexOf(Cleaned(text), "}") = -1

\* The Recipe of fallbacks alone.
DefaultRecipe ==
  [dishName |-> JStr(UnknownDish),
   shortDescription |-> JStr(DefaultDescription),
   cuisine |-> JStr(Fusion),
   difficulty |-> JStr(Medium),
   servings |-> JStr(DefaultServings),
   prepTime |-> JStr(DefaultPrepTime),
   cookTime |-> JStr(DefaultCookTime),
   caloriesPerServing |-> JStr(DefaultCalories),
   ingredients |-> <<>>,
   instructions |-> <<>>,
   platingTips |-> <<>>]

\* C5 as stated: for every answer with neither '{' nor '}' parseModelJson throws.
C5_NoBracesThrows == (Called /\ NoBraces) => parsed.threw

\* C5 as amended: for an answer with neither '{' nor '}', parseModelJson throws
\* unless the cleaned text is itself a valid JSON number, string, boolean or
\* array, and then it returns the Recipe of fallbacks alone.
C5_NoBracesThrowsUnlessJson ==
  (Called /\ NoBraces) =>
    /\ parsed.threw <=>
         (~JSON_parse(Cleaned(text)).ok \/ JSON_parse(Cleaned(text)).val.t = "null")
    /\ ~parsed.threw => parsed.recipe = DefaultRecipe

\* Plain prose was answered and parseModelJson threw.
C5_Witness ==
  /\ Called
  /\ text = <<"S", "o", "r", "r", "y", ".">>
  /\ NoBraces
  /\ parsed.threw
  /\ response.status = 500

\* The candidate C6 states, of the cleaned text and its two brace positions.
ClaimedCandidate(cleaned, firstBrace, lastBrace) ==
  IF firstBrace # -1 /\ lastBrace # -1 /\ firstBrace < lastBrace
  THEN SubSeq(cleaned, firstBrace + 1, lastBrace + 1)
  ELSE cleaned

\* C6: the JSON candidate is the span from the first '{' to the last '}' when
\* both exist and the first precedes the last, and the whole cleaned text in
\* every other case, a '}' before the first '{' included.
C6_Candidate ==
  Called =>
    JsonString(text)
      = ClaimedCandidate(Cleaned(text), IndexOf(Cleaned(text), "{"),
                         LastIndexOf(Cleaned(text), "}"))

\* The fields of the two Recipes agree, the one named by key aside.
SameBut(a, b, key) ==
  /\ \A f \in TextFields : f.key # key => a[f.name] = b[f.name]
  /\ key # Key_difficulty => a.difficulty = b.difficulty
  /\ \A f \in SequenceFields : f.key # key => a[f.name] = b[f.name]

\* The outcome other of a second answer is a Recipe that agrees with got.
AgreesBut(got, other, key) == ~other.threw /\ SameBut(got, other.recipe, key)

\* C7 of an answer's structure x and its outcome, against the outcome of the
\* answer without one member.
FieldsIndependentOf(x, outcome) ==
  x.t = "obj" =>
    /\ ~outcome.threw
    /\ \A key \in FieldKeys :
         HasOwn(x, key) =>
           AgreesBut(outcome.recipe, parseModelJson(Stringify(Without(x, key))), key)

\* C7: two answers that differ in one field only both give a Recipe, and the
\* two Recipes agree on every other field: here the answer and the same answer
\* without one of its members.
C7_FieldsIndependent ==
  Called => (Structure.ok => FieldsIndependentOf(Structure.val, parsed))

\* C8 of the value v an answer gives a text field and the field got of the Recipe.
TextFallbackOf(v, got, fallback) ==
  /\ (v.t \in {"undefined", "null"} \/ (v.t = "str" /\ v.v = <<>>))
       => got = JStr(fallback)
  /\ (v.t = "str" /\ v.v # <<>>) => got = v

\* What holds of the text fields: in every Recipe parseModelJson returns, each
\* follows the fallback rule.
TextFallbacksWhenReturned ==
  Returns => \A f \in TextFields :
               TextFallbackOf(Get(Structure.val, f.key), parsed.recipe[f.name], f.fallback)

\* C8: for every answer whose JSON candidate parses to an object, a Recipe is
\* returned in which a text field given as null or as "", or not given, holds
\* its fallback, and one given as a non-empty text holds that text.
C8_TextFallbacks ==
  Called =>
    ((Structure.ok /\ Structure.val.t = "obj") =>
       ~parsed.threw /\ TextFallbacksWhenReturned)

\* The difficulty C9 states for the value v the answer gives.
ClaimedDifficulty(v) ==
  IF v.t = "str" /\ v.v \in {Easy, Medium, Hard} THEN v ELSE JStr(Medium)

\* What holds of the difficulty: in every Recipe parseModelJson returns it is as
\* C9 states, and when the call fails it fails without the difficulty too.
DifficultyWhenReturned ==
  /\ Returns =>
       parsed.recipe.difficulty = ClaimedDifficulty(Get(Structure.val, Key_difficulty))
  /\ (Called /\ parsed.threw) =>
       (Structure.ok => OnlyFailsWithout(Structure.val, Key_difficulty))

\* C9: for every answer whose JSON candidate parses, no error is raised and the
\* difficulty of the Recipe is the answer's when that is exactly the text Easy,
\* Medium or Hard, and Medium in every other case.
C9_Difficulty ==
  Called =>
    (Structure.ok =>
       /\ ~parsed.threw
       /\ parsed.recipe.difficulty
            = ClaimedDifficulty(Get(Structure.val, Key_difficulty)))

\* C10 of the answer's structure x, its outcome and the sequence field f.
NotASequenceOf(x, outcome, f) ==
  (HasOwn(x, f.key) /\ Get(x, f.key).t # "arr") =>
    /\ ~outcome.threw => outcome.recipe[f.name] = <<>>
    /\ outcome.threw => OnlyFailsWithout(x, f.key)

\* What holds of the list fields: a value that is no sequence gives an empty
\* field in every Recipe returned, and when the call fails it fails without
\* that value too.
NotASequenceWhenReturned ==
  Called => (Structure.ok => \A f \in SequenceFields :
                               NotASequenceOf(Structure.val, parsed, f))

\* C10: when the answer gives ingredients, instructions or platingTips a value
\* that is no sequence, no error is raised and that field of the Recipe is the
\* empty sequence.
C10_NotASequence ==
  Called =>
    (Structure.ok =>
       \A f \in SequenceFields :
         (HasOwn(Structure.val, f.key) /\ Get(Structure.val, f.key).t # "arr") =>
           ~parsed.threw /\ parsed.recipe[f.name] = <<>>)

RECURSIVE ClaimedIngredients(_, _)
\* The list C11 states: one record for each element from i on that is a
\* key-value object, in order, with the item and the amount it gives or their
\* defaults, and nothing for any other element.
ClaimedIngredients(a, i) ==
  IF i > Len(a) THEN <<>>
  ELSE IF a[i].t = "obj"
  THEN <<[item |-> OrElse(Get(a[i], Key_item), JStr(DefaultItem)),
          amount |-> OrElse(Get(a[i], Key_amount), JStr(DefaultAmount))]>>
       \o ClaimedIngredients(a, i + 1)
  ELSE ClaimedIngredients(a, i + 1)

\* C11 of the value v an answer gives ingredients and the ingredients got.
IngredientsOf(v, got) == v.t = "arr" => got = ClaimedIngredients(v.v, 1)

\* C11: when ingredients is a sequence, the Recipe returned holds one record
\* for each entry that is a key-value object, in order, item and amount
\* defaulted independently, and nothing for a string, a number, a boolean, a
\* null or a nested array.
C11_Ingredients ==
  Returns => IngredientsOf(Get(Structure.val, Key_ingredients), parsed.recipe.ingredients)

\* A markdown code fence around a text: the opening fence with the tag json in
\* some letter case or with no tag, the text on the lines between, the closing
\* fence; the tagged fence also without the line breaks.
CodeFences ==
  {[pre |-> FenceJson \o <<"\n">>, post |-> <<"\n">> \o Fence],
   [pre |-> Fence \o <<"J", "S", "O", "N", "\n">>, post |-> <<"\n">> \o Fence],
   [pre |-> Fence \o <<"J", "s", "o", "n">>, post |-> Fence],
   [pre |-> Fence \o <<"\n">>, post |-> <<"\n">> \o Fence \o <<"\n">>]}

\* The outcome for the text t in each fence is the outcome for t.
SameInFences(t, outcome) ==
  \A w \in CodeFences : parseModelJson(w.pre \o t \o w.post) = outcome

\* C12: for every answer, the answer wrapped in a markdown JSON code fence has
\* the outcome of the answer itself: the same Recipe, or both calls fail.
C12_FenceIdempotent == Called => SameInFences(text, parsed)

\* The answer 5 gives the Recipe of fallbacks, bare and in a fence tagged JSON
\* in capitals.
C12_Witness ==
  /\ Returns
  /\ text = <<"5">>
  /\ parseModelJson(Fence \o <<"J", "S", "O", "N", "\n", "5", "\n">> \o Fence) = parsed

\* Explanatory prose that may stand before and behind a JSON object: texts
\* without a brace, some with line breaks, backticks and quotes.
ProseBefore ==
  {<<>>,
   <<"S", "u", "r", "e", "!", " ", "H", "e", "r", "e", " ", "y", "o", "u", " ",
     "g", "o", ":", "\n">>,
   <<"T", "h", "e", " ", Backtick, "J", "S", "O", "N", Backtick, ":", " ">>,
   <<"\"", "O", "k", "\"", " ", "[", "1", "]", " ">>}

ProseBehind ==
  {<<>>,
   <<"\n", "E", "n", "j", "o", "y", "!">>,
   <<" ", Backtick, Backtick, " ", "d", "o", "n", "e", ".">>,
   <<",", " ", "n", "u", "l", "l", " ", "\"">>}

\* The text is one JSON object and nothing else.
SingleObject(t, structure) ==
  /\ structure.ok
  /\ structure.val.t = "obj"
  /\ t # <<>>
  /\ t[1] = "{"
  /\ t[Len(t)] = "}"

\* The outcome for the object text t between prose is the outcome for t.
SameInProse(t, outcome) ==
  \A pre \in ProseBefore, post \in ProseBehind :
    parseModelJson(pre \o t \o post) = outcome

\* C13: for an answer that is a single JSON object, the object with explanatory
\* prose before and behind it has the outcome of the object alone.
C13_ProseAround ==
  (Called /\ SingleObject(text, JSON_parse(text))) => SameInProse(text, parsed)

\* The answer {"dishName":"Tacos"} gave the Recipe named Tacos with every other
\* field at its fallback, and so does the same object between two sentences.
C13_Witness ==
  /\ Returns
  /\ text = Stringify(WithField(EmptyObject, Key_dishName, JStr(Tacos)))
  /\ parsed.recipe = [DefaultRecipe EXCEPT !.dishName = JStr(Tacos)]
  /\ parseModelJson(<<"S", "u", "r", "e", "!", " ", "H", "e", "r", "e", " ", "y", "o",
                      "u", " ", "g", "o", ":", "\n">> \o text
                     \o <<"\n", "E", "n", "j", "o", "y", "!">>) = parsed

\* The value is a text; one that is not empty.
IsText(v) == v.t = "str"

IsNonEmptyText(v) == v.t = "str" /\ v.v # <<>>

\* x is an object that matches the full schema: each of the eleven members once,
\* the text fields texts, difficulty one of the three levels, ingredients a
\* sequence of objects of a text item and a text amount, instructions and
\* platingTips sequences of texts. Text(_) says which texts count.
MatchesSchema(x, nonEmpty) ==
  LET Text(v) == IF nonEmpty THEN IsNonEmptyText(v) ELSE IsText(v)
  IN  /\ x.t = "obj"
      /\ Len(x.v) = Cardinality(FieldKeys)
      /\ \A key \in FieldKeys : HasOwn(x, key)
      /\ \A f \in TextFields : Text(Get(x, f.key))
      /\ Get(x, Key_difficulty).t = "str"
      /\ Get(x, Key_difficulty).v \in {Easy, Medium, Hard}
      /\ Get(x, Key_ingredients).t = "arr"
      /\ \A i \in 1..Len(Get(x, Key_ingredients).v) :
           LET e == Get(x, Key_ingredients).v[i]
           IN  /\ e.t = "obj"
               /\ Len(e.v) = 2
               /\ Text(Get(e, Key_item))
               /\ Text(Get(e, Key_amount))
      /\ \A key \in {Key_instructions, Key_platingTips} :
           /\ Get(x, key).t = "arr"
           /\ \A i \in 1..Len(Get(x, key).v) : Text(Get(x, key).v[i])

\* The Recipe whose every field is the value the object x gives it.
RecipeOf(x) ==
  [dishName |-> Get(x, Key_dishName),
   shortDescription |-> Get(x, Key_shortDescription),
   cuisine |-> Get(x, Key_cuisine),
   difficulty |-> Get(x, Key_difficulty),
   servings |-> Get(x, Key_servings),
   prepTime |-> Get(x, Key_prepTime),
   cookTime |-> Get(x, Key_cookTime),
   caloriesPerServing |-> Get(x, Key_caloriesPerServing),
   ingredients |-> [i \in 1..Len(Get(x, Key_ingredients).v) |->
                     [item |-> Get(Get(x, Key_ingredients).v[i], Key_item),
                      amount |-> Get(Get(x, Key_ingredients).v[i], Key_amount)]],
   instructions |-> Get(x, Key_instructions).v,
   platingTips |-> Get(x, Key_platingTips).v]

\* The outcome is the Recipe of the values of x, when x matches the schema.
IdentityOf(x, outcome, nonEmpty) ==
  MatchesSchema(x, nonEmpty) => (~outcome.threw /\ outcome.recipe = RecipeOf(x))

UploadAccepted ==
  /\ apiKey
  /\ request.form = "multipart"
  /\ request.image = "File"
  /\ ToLowerCase(request.type) \in {"image/jpeg", "image/png", "image/webp"}
  /\ request.size <= 1500000

\* C15: the model is called only for a request that passed every check; a
\* request that fails one is answered with an error and the model never called.
C15_ModelAfterChecks ==
  /\ modelCalls > 0 => UploadAccepted
  /\ (pc = "done" /\ ~UploadAccepted) =>
       (modelCalls = 0 /\ response.status \in {400, 413, 500})

\* The model was called for a WebP of exactly 1,500,000 bytes whose media type
\* came in mixed case.
C15_Witness ==
  /\ modelCalls = 1
  /\ request.type = "Image/WebP"
  /\ request.size = 1500000
  /\ pc = "generateContent"

\* C16: when the model call or parseModelJson throws, the response is the 500
\* with the fixed message and nothing else, naming no error; the model is
\* called at most once for a request.
C16_ParseFailureTerminal ==
  /\ modelCalls <= 1
  /\ (pc = "done" /\ modelCalls = 1 /\ (~Called \/ parsed.threw)) =>
       /\ response.status = 500
       /\ response.body = [error |-> FailedMessage]
       /\ parsed.error \notin {response.body[k] : k \in DOMAIN response.body}

\* parseModelJson threw a SyntaxError and the 500 was returned.
C16_Witness ==
  /\ pc = "done"
  /\ modelCalls = 1
  /\ parsed.threw
  /\ parsed.error = "SyntaxError"
  /\ response.status = 500

\* The response C17 states for the request, or none where it states none.
ClaimedRejection ==
  IF ~apiKey THEN ErrorResponse(MissingKeyMessage, 500)
  ELSE IF request.image # "File" THEN ErrorResponse(NoImageMessage, 400)
  ELSE IF ToLowerCase(request.type) \notin {"image/jpeg", "image/png", "image/webp"}
  THEN ErrorResponse(UnsupportedTypeMessage, 400)
  ELSE IF request.size > 1500000 THEN ErrorResponse(TooLargeMessage, 413)
  ELSE NoResponse

\* C17: the first failing check of missing key (500), "image" no File (400),
\* media type not allowed (400), more than 1,500,000 bytes (413) alone decides
\* the response of a request whose body is a form; exactly 1,500,000 bytes pass.
C17_Precedence ==
  (pc = "done" /\ (~apiKey \/ request.form = "multipart")) =>
    /\ ClaimedRejection # NoResponse => response = ClaimedRejection
    /\ (ClaimedRejection = NoResponse /\ request.size = 1500000) => modelCalls = 1

\* A request that fails every check was answered by the first, the missing key.
C17_Witness ==
  /\ pc = "done"
  /\ ~apiKey
  /\ request.image = "null"
  /\ request.type = "image/gif"
  /\ request.size > 1500000
  /\ response.status = 500
  /\ response.body = [error |-> MissingKeyMessage]

\* The invocations of analyzeFile whose /api/analyze request has not settled:
\* those at the await of fetch or of response.json().
InFlight == {t \in tasks : t.pc \in {"fetch", "json"}}

\* C18: loading holds whenever a request started by analyzeFile is in flight
\* and does not hold once all have settled; a request that finishes does not
\* clear loading while another is pending. (The state of the page, loading
\* included, is that of the mounted component.)
C18_LoadingWhileInFlight == mounted => (loading <=> InFlight # {})

\* C19: the recipe displayed belongs to the image prepared last, the cached
\* file: the response to a request for an earlier file never sets recipe.
C19_RecipeOfLatestImage == recipe # 0 => recipe = cachedFile.id

\* C20: every file posted to /api/analyze has an allowed media type and at
\* most MAX_UPLOAD_BYTES bytes, whichever path produced it.
C20_PostedWithinConstraints ==
  \A t \in InFlight :
    /\ t.file.type \in {"image/jpeg", "image/png", "image/webp"}
    /\ t.file.size <= 4 * 1024 * 1024

\* What C21 states of a step that rejects an image: the cached photo, its
\* origin, the preview and the recipe stay, no request to /api/analyze is
\* added, and the error displayed is the message thrown.
OnlyErrorChanges(message) ==
  /\ UNCHANGED <<cachedFile, cachedFromCamera, previewUrl, recipe>>
  /\ InFlight' \subseteq InFlight
  /\ error' = message

\* C21: when prepareImage throws inside onFileSelected (the file is no image,
\* its media type is not allowed, the compression fails, or the compressed file
\* is over the limit), cachedFile, cachedFromCamera, previewUrl and recipe keep
\* their values, no request is sent, and error is the thrown message.
C21_RejectedChangesOnlyError ==
  [][/\ \A fromCamera \in BOOLEAN, type \in FileTypes, size \in FileSizes :
          (onFileSelected(fromCamera, type, size)
             /\ type \notin {"image/jpeg", "image/png", "image/webp"})
            => OnlyErrorChanges(IF type = "application/pdf" THEN NotImageMessage
                                ELSE NotAllowedMessage)
     /\ \A t \in tasks, message \in {NoContextMessage, NoBlobMessage, ImageErrorMessage} :
          compressImageRejects(t, message) => OnlyErrorChanges(message)
     /\ \A t \in tasks, size \in FileSizes :
          (compressImageResolves(t, size) /\ size > 4 * 1024 * 1024)
            => OnlyErrorChanges(CompressedTooLargeMessage)]_vars

\* The second upload was rejected as too large after its compression, while
\* the first one is cached and its recipe displayed.
C21_Witness ==
  /\ error = CompressedTooLargeMessage
  /\ cachedFile.id = 1
  /\ previewUrl = 1
  /\ recipe = 1
  /\ calls = 2
  /\ tasks = {}

\* C22: whenever cameraOpen is false, after stopCamera or the unmount, no
\* stream that getUserMedia returned still has running tracks, however often
\* openWebCamera was invoked before.
C22_StreamsStoppedWhenClosed == ~cameraOpen => running = {}

====
